---- MODULE Spec2Model ----
(***************************************************************************)
(* Contact store of the Telegram bot scripts (scripts/contacts.py), the     *)
(* wrapper of the Telegram client (scripts/telegram_bot.py) and the        *)
(* command scripts that use them.  Three specifications: Spec, the calls   *)
(* of one ContactManager; SpecCli, runs of the scripts one after the       *)
(* other; SpecRace, two runs of contacts.py at the same time.              *)
(*                                                                         *)
(* Python strings are sequences of one-character strings, Python values    *)
(* are tagged records [t, v], a dict is the sequence of its items in       *)
(* insertion order, and the backing file is the JSON text it holds.        *)
(***************************************************************************)
EXTENDS Integers, Sequences, FiniteSets, TLC

VARIABLES contacts, file, last

vars == <<contacts, file, last>>

----------------------------------------------------------------------------
(* Bounds of the model *)

\* largest number of entries the store is allowed to grow to
MaxContacts == 2

\* largest number of chats in one import batch
MaxChats == 2

----------------------------------------------------------------------------
(* Python strings and values *)

UpperChars == <<"A","B","C","D","E","F","G","H","I","J","K","L","M",
                "N","O","P","Q","R","S","T","U","V","W","X","Y","Z">>

LowerChars == <<"a","b","c","d","e","f","g","h","i","j","k","l","m",
                "n","o","p","q","r","s","t","u","v","w","x","y","z">>

DigitChars == <<"0","1","2","3","4","5","6","7","8","9">>

\* the characters of the model in code point order
CodePoints == <<" ", "-">> \o DigitChars \o UpperChars \o <<"_">> \o LowerChars

\* ord(c), up to the gaps between the characters of the model
Ord == [c \in {CodePoints[i] : i \in 1..Len(CodePoints)} |->
          CHOOSE i \in 1..Len(CodePoints) : CodePoints[i] = c]

\* the lower-case form of each character
LowerChar ==
    [c \in DOMAIN Ord |->
        IF \E i \in 1..Len(UpperChars) : UpperChars[i] = c
        THEN LowerChars[CHOOSE i \in 1..Len(UpperChars) : UpperChars[i] = c]
        ELSE c]

\* str.lower()
Lower(s) == [i \in 1..Len(s) |-> LowerChar[s[i]]]

RECURSIVE NatToStr(_)
NatToStr(n) ==
    IF n < 10 THEN <<DigitChars[n + 1]>>
    ELSE NatToStr(n \div 10) \o <<DigitChars[(n % 10) + 1]>>

\* str(i) of an int
IntToStr(i) == IF i < 0 THEN <<"-">> \o NatToStr(0 - i) ELSE NatToStr(i)

RECURSIVE LStrip(_)
LStrip(s) == IF s # <<>> /\ Head(s) = " " THEN LStrip(Tail(s)) ELSE s

RECURSIVE RStrip(_)
RStrip(s) ==
    IF s # <<>> /\ s[Len(s)] = " " THEN RStrip(SubSeq(s, 1, Len(s) - 1)) ELSE s

\* str.strip()
Strip(s) == RStrip(LStrip(s))

\* s < t in Python's string order (lexicographic by code point)
RECURSIVE StrLess(_, _)
StrLess(s, t) ==
    IF t = <<>> THEN FALSE
    ELSE IF s = <<>> THEN TRUE
    ELSE IF Head(s) # Head(t) THEN Ord[Head(s)] < Ord[Head(t)]
    ELSE StrLess(Tail(s), Tail(t))

None_ == [t |-> "none", v |-> <<>>]
PyStr(s) == [t |-> "str", v |-> s]
PyInt(i) == [t |-> "int", v |-> i]
PyBool(b) == [t |-> "bool", v |-> b]
PyList(l) == [t |-> "list", v |-> l]
PyExc(e) == [t |-> "exc", v |-> e]

\* a dict key that is missing (dict.get falls back to its default)
Absent == [t |-> "absent", v |-> <<>>]

\* str(x), also the formatting of x inside an f-string
str(x) ==
    CASE x.t = "str" -> x.v
      [] x.t = "int" -> IntToStr(x.v)
      [] x.t = "none" -> <<"N","o","n","e">>

\* truthiness of a value: None and "" are falsy
Truthy(x) ==
    CASE x.t = "none" -> FALSE
      [] x.t = "str" -> x.v # <<>>
      [] x.t = "int" -> x.v # 0

\* a or b
Or(a, b) == IF Truthy(a) THEN a ELSE b

\* d.get(k) and d.get(k, default) of a chat dict field
Get(field) == IF field.t = "absent" THEN None_ ELSE field
GetDefault(field, default) == IF field.t = "absent" THEN default ELSE field

----------------------------------------------------------------------------
(* The store: a dict in insertion order, or whatever else the file held *)

EmptyDict == [kind |-> "dict", items |-> <<>>]

IsDict(c) == c.kind = "dict"

Keys(c) == {c.items[i].key : i \in 1..Len(c.items)}

\* key in d
HasKey(c, k) == \E i \in 1..Len(c.items) : c.items[i].key = k

IndexOf(c, k) == CHOOSE i \in 1..Len(c.items) : c.items[i].key = k

\* d[k]
Lookup(c, k) == c.items[IndexOf(c, k)].val

\* d[k] = v done as a removal followed by an insertion at the end
DictSet_reinsert(c, k, v) ==
    [c EXCEPT !.items = SelectSeq(@, LAMBDA it : it.key # k)
                            \o <<[key |-> k, val |-> v]>>]

\* d[k] = v: an existing key keeps its position, a new key goes last
DictSet(c, k, v) ==
    IF HasKey(c, k)
    THEN [c EXCEPT !.items[IndexOf(c, k)] = [key |-> k, val |-> v]]
    ELSE [c EXCEPT !.items = Append(@, [key |-> k, val |-> v])]

\* del d[k]
DictDel(c, k) ==
    LET i == IndexOf(c, k)
    IN  [c EXCEPT !.items = SubSeq(@, 1, i - 1) \o SubSeq(@, i + 1, Len(@))]

\* x in l for a list l
InList(c, x) == \E i \in 1..Len(c.items) : c.items[i] = x

----------------------------------------------------------------------------
(* JSON text of the backing file *)

\* every value written as its string form
ToJson_str(x) == [j |-> "string", v |-> str(x)]

ToJson(x) ==
    [j |-> CASE x.t = "str" -> "string"
             [] x.t = "int" -> "number"
             [] x.t = "none" -> "null",
     v |-> x.v]

FromJson(x) ==
    [t |-> CASE x.j = "string" -> "str"
             [] x.j = "number" -> "int"
             [] x.j = "null" -> "none",
     v |-> x.v]

Fields == {"name", "chat_id", "type", "title"}

\* json.dumps(self.contacts, indent=2, ensure_ascii=False)
dumps(c) ==
    IF IsDict(c)
    THEN [kind |-> "object",
          items |-> [i \in 1..Len(c.items) |->
                       [key |-> c.items[i].key,
                        val |-> [f \in Fields |-> ToJson(c.items[i].val[f])]]]]
    ELSE [kind |-> "array",
          items |-> [i \in 1..Len(c.items) |-> ToJson(c.items[i])]]

\* json.loads(text) of a well-formed text
loads(f) ==
    IF f.kind = "object"
    THEN [kind |-> "dict",
          items |-> [i \in 1..Len(f.items) |->
                       [key |-> f.items[i].key,
                        val |-> [g \in Fields |-> FromJson(f.items[i].val[g])]]]]
    ELSE [kind |-> "list",
          items |-> [i \in 1..Len(f.items) |-> FromJson(f.items[i])]]

NoFile == [kind |-> "absent", items |-> <<>>]

\* a file whose text is not JSON
GarbageFile == [kind |-> "garbage", items |-> <<>>]

\* a file holding the JSON array of the given strings
ArrayFile(l) == [kind |-> "array", items |-> [i \in 1..Len(l) |-> ToJson(PyStr(l[i]))]]

\* ContactManager._load
_load(f) ==
    IF f.kind = "absent" THEN EmptyDict
    ELSE IF f.kind = "garbage" THEN EmptyDict
    ELSE loads(f)

\* ContactManager._save: the new content of the file
_save(c) == dumps(c)

----------------------------------------------------------------------------
(* Operations of ContactManager; each returns the store, the file and the  *)
(* value returned (or the exception raised)                                *)

Outcome(c, f, r) == [contacts |-> c, file |-> f, ret |-> r]

\* the element of a one-element set
Only(S) == CHOOSE x \in S : TRUE

\* add that stores the chat id as it was given
add_raw_chat_id(c, f, name, chat_id, chat_type, title) ==
    LET name_lower == Lower(name)
        entry == [name |-> PyStr(name),
                  chat_id |-> chat_id,
                  type |-> PyStr(chat_type),
                  title |-> title]
    IN  IF ~IsDict(c)
        THEN Outcome(c, f, PyExc("TypeError"))
        ELSE LET is_new == ~HasKey(c, name_lower)
             IN  Only({Outcome(c2, _save(c2), PyBool(is_new)) :
                         c2 \in {DictSet(c, name_lower, entry)}})

\* ContactManager.add
add(c, f, name, chat_id, chat_type, title) ==
    LET name_lower == Lower(name)
        entry == [name |-> PyStr(name),
                  chat_id |-> PyStr(str(chat_id)),
                  type |-> PyStr(chat_type),
                  title |-> title]
    IN  IF ~IsDict(c)
        THEN Outcome(c, f, PyExc("TypeError"))
        ELSE LET is_new == ~HasKey(c, name_lower)
             IN  Only({Outcome(c2, _save(c2), PyBool(is_new)) :
                         c2 \in {DictSet(c, name_lower, entry)}})

\* remove that forgets to persist
remove_no_save(c, f, name) ==
    LET name_lower == Lower(name)
    IN  IF IsDict(c)
        THEN IF HasKey(c, name_lower)
             THEN Outcome(DictDel(c, name_lower), f, PyBool(TRUE))
             ELSE Outcome(c, f, PyBool(FALSE))
        ELSE IF InList(c, PyStr(name_lower))
             THEN Outcome(c, f, PyExc("TypeError"))
             ELSE Outcome(c, f, PyBool(FALSE))

\* remove that persists whether or not it removed anything
remove_always_save(c, f, name) ==
    LET name_lower == Lower(name)
    IN  IF IsDict(c)
        THEN IF HasKey(c, name_lower)
             THEN Only({Outcome(c2, _save(c2), PyBool(TRUE)) :
                          c2 \in {DictDel(c, name_lower)}})
             ELSE Outcome(c, _save(c), PyBool(FALSE))
        ELSE IF InList(c, PyStr(name_lower))
             THEN Outcome(c, f, PyExc("TypeError"))
             ELSE Outcome(c, f, PyBool(FALSE))

\* ContactManager.remove
remove(c, f, name) ==
    LET name_lower == Lower(name)
    IN  IF IsDict(c)
        THEN IF HasKey(c, name_lower)
             THEN Only({Outcome(c2, _save(c2), PyBool(TRUE)) :
                          c2 \in {DictDel(c, name_lower)}})
             ELSE Outcome(c, f, PyBool(FALSE))
        ELSE IF InList(c, PyStr(name_lower))
             THEN Outcome(c, f, PyExc("TypeError"))
             ELSE Outcome(c, f, PyBool(FALSE))

\* get_chat_id that looks the name up as given
get_chat_id_exact(c, name) ==
    IF IsDict(c)
    THEN IF HasKey(c, name) THEN Lookup(c, name).chat_id ELSE None_
    ELSE IF InList(c, PyStr(name)) THEN PyExc("TypeError") ELSE None_

\* ContactManager.get_chat_id
get_chat_id(c, name) ==
    LET name_lower == Lower(name)
    IN  IF IsDict(c)
        THEN IF HasKey(c, name_lower)
             THEN Lookup(c, name_lower).chat_id
             ELSE None_
        ELSE IF InList(c, PyStr(name_lower))
             THEN PyExc("TypeError")
             ELSE None_

\* ContactManager.get_contact: the record, or None
get_contact(c, name) ==
    LET name_lower == Lower(name)
    IN  IF IsDict(c)
        THEN IF HasKey(c, name_lower)
             THEN [t |-> "dict", v |-> Lookup(c, name_lower)]
             ELSE None_
        ELSE PyExc("AttributeError")

\* sort key without the lower-casing
list_all_key_raw(x) == x.name.v

\* the sort key of list_all: lambda x: x["name"].lower()
list_all_key(x) == Lower(x.name.v)

\* sorted(): x goes behind every element whose key is not greater (stable)
Insert(s, x) ==
    LET p == Cardinality({i \in 1..Len(s) :
                            ~StrLess(list_all_key(x), list_all_key(s[i]))})
    IN  SubSeq(s, 1, p) \o <<x>> \o SubSeq(s, p + 1, Len(s))

RECURSIVE sorted(_)
sorted(l) ==
    IF l = <<>> THEN <<>>
    ELSE Insert(sorted(SubSeq(l, 1, Len(l) - 1)), l[Len(l)])

\* dict.values()
Values(c) == [i \in 1..Len(c.items) |-> c.items[i].val]

\* ContactManager.list_all
list_all(c) ==
    IF IsDict(c) THEN PyList(sorted(Values(c))) ELSE PyExc("AttributeError")

\* q in s for strings
InStr(q, s) ==
    \E i \in 0..(Len(s) - Len(q)) : SubSeq(s, i + 1, i + Len(q)) = q

\* search that compares the query with the name as written
search_raw(c, query) ==
    IF IsDict(c)
    THEN PyList(SelectSeq(Values(c), LAMBDA x : InStr(query, x.name.v)))
    ELSE PyExc("AttributeError")

\* ContactManager.search
search(c, query) ==
    LET query_lower == Lower(query)
        hit(x) == \/ InStr(query_lower, x.key)
                  \/ InStr(query_lower, Lower(x.val.name.v))
    IN  IF IsDict(c)
        THEN PyList(Values([c EXCEPT !.items = SelectSeq(@, hit)]))
        ELSE PyExc("AttributeError")

\* TelegramBotWrapper.get_updates: the chat dict built from a message's chat
get_updates_chat(chat) ==
    [id |-> chat.id,
     type |-> chat.type,
     title |-> chat.title,
     username |-> chat.username,
     first_name |-> chat.first_name,
     last_name |-> Absent]

User_ == <<"U","s","e","r","_">>

\* chat types
private == <<"p","r","i","v","a","t","e">>
group == <<"g","r","o","u","p">>

\* import_from_chats: the friendly name generated for a chat
import_name(chat) ==
    LET chat_id == str(PyInt(chat.id))
    IN  IF chat.type = private
        THEN Or(Or(Get(chat.first_name), Get(chat.username)),
                PyStr(User_ \o chat_id))
        ELSE Or(Get(chat.title), PyStr(chat.type \o <<"_">> \o chat_id))

\* import_from_chats: the title stored for a chat
import_title(chat) ==
    IF chat.type = private
    THEN PyStr(Strip(str(GetDefault(chat.first_name, PyStr(<<>>)))
                     \o <<" ">>
                     \o str(GetDefault(chat.last_name, PyStr(<<>>)))))
    ELSE Get(chat.title)

\* loop body that counts a chat whether or not it was added
import_chat_count_all(c, f, chat) ==
    Only({ IF found.t = "exc" THEN Outcome(c, f, found)
           ELSE IF found = None_
           THEN Only({IF r.ret.t = "exc" THEN r ELSE [r EXCEPT !.ret = PyInt(1)] :
                        r \in {add(c, f, import_name(chat).v, PyStr(str(PyInt(chat.id))),
                                   chat.type, import_title(chat))}})
           ELSE Outcome(c, f, PyInt(1)) :
             found \in {get_chat_id(c, import_name(chat).v)} })

\* loop body without the check for an existing contact
import_chat_overwrite(c, f, chat) ==
    Only({IF r.ret.t = "exc" THEN r ELSE [r EXCEPT !.ret = PyInt(IF r.ret.v THEN 1 ELSE 0)] :
            r \in {add(c, f, import_name(chat).v, PyStr(str(PyInt(chat.id))),
                       chat.type, import_title(chat))}})

\* import_from_chats, the body of the loop: ret is 1 when the chat was added,
\* 0 when it was skipped
import_chat(c, f, chat) ==
    Only({ IF found.t = "exc" THEN Outcome(c, f, found)
           ELSE IF found = None_
           THEN Only({IF r.ret.t = "exc" THEN r ELSE [r EXCEPT !.ret = PyInt(1)] :
                        r \in {add(c, f, name.v, PyStr(str(PyInt(chat.id))),
                                   chat.type, import_title(chat))}})
           ELSE Outcome(c, f, PyInt(0)) :
             name \in {import_name(chat)},
             found \in {get_chat_id(c, import_name(chat).v)} })

\* import_from_chats, the loop over the chats not yet handled
RECURSIVE import_loop(_, _, _, _)
import_loop(c, f, chats, imported) ==
    IF chats = <<>> THEN Outcome(c, f, PyInt(imported))
    ELSE Only({ IF r.ret.t = "exc" THEN r
                ELSE import_loop(r.contacts, r.file, Tail(chats), imported + r.ret.v) :
                  r \in {import_chat(c, f, Head(chats).chat)} })

\* ContactManager.import_from_chats
import_from_chats(c, f, chats) == import_loop(c, f, chats, 0)

----------------------------------------------------------------------------
(* Inputs *)

Names == {<<"a">>, <<"A">>, <<"B">>}

\* the chat_id, chat_type and title arguments of add
AddArgs ==
    { <<PyStr(<<"1">>), private, None_>>,
      <<PyInt(-2), group, PyStr(<<"T">>)>> }

\* the query argument of search
Queries == {<<"A">>, <<"R">>, <<"_", "1">>}

InitFiles == {NoFile, GarbageFile, ArrayFile(<<>>), ArrayFile(<<<<"a">>>>)}

TgChat(id, type, title, username, first_name, last_name) ==
    [id |-> id, type |-> type, title |-> title, username |-> username,
     first_name |-> first_name, last_name |-> last_name]

\* chats as the Telegram client reports them: a missing attribute is None
TgChats ==
    { TgChat(1, private, None_, None_, PyStr(<<"A">>), None_),
      TgChat(2, private, None_, PyStr(<<"a">>), None_, None_),
      TgChat(1, private, None_, None_, None_, None_),
      TgChat(-2, group, PyStr(<<"B">>), None_, None_, None_),
      TgChat(-2, group, None_, None_, None_, None_) }

\* the entries of chat_list: the chat dict of a message from get_updates
ChatInfos == {[chat |-> get_updates_chat(m)] : m \in TgChats}

\* the chat_list main builds from the updates: at most one entry per chat id
Batches ==
    {b \in UNION {[1..n -> ChatInfos] : n \in 0..MaxChats} :
        \A i, j \in 1..Len(b) : i # j => b[i].chat.id # b[j].chat.id}

----------------------------------------------------------------------------
(* State machine *)

\* the last call made on the store: its arguments and what it returned
NoCall == [op |-> "none", name |-> <<>>, chat_id |-> None_, chat_type |-> <<>>,
           title |-> None_, chats |-> <<>>, ret |-> None_, after_add |-> "no"]

Init ==
    /\ file \in InitFiles
    /\ contacts = _load(file)
    /\ last = [NoCall EXCEPT !.op = "construct"]

\* ContactManager.__init__ in a new run of a script
Construct ==
    /\ contacts' = _load(file)
    /\ file' = file
    /\ last' = [NoCall EXCEPT !.op = "construct"]

Add ==
    \E name \in Names, a \in AddArgs :
        \E r \in {add(contacts, file, name, a[1], a[2], a[3])} :
            /\ IsDict(r.contacts) => Len(r.contacts.items) <= MaxContacts
            /\ contacts' = r.contacts
            /\ file' = r.file
            /\ last' = [NoCall EXCEPT !.op = "add", !.name = name,
                                      !.chat_id = a[1], !.chat_type = a[2],
                                      !.title = a[3], !.ret = r.ret]

Remove ==
    \E name \in Names :
        \E r \in {remove(contacts, file, name)} :
            /\ contacts' = r.contacts
            /\ file' = r.file
            /\ last' = [NoCall EXCEPT
                          !.op = "remove", !.name = name, !.ret = r.ret,
                          !.after_add =
                              IF last.op = "add" /\ last.ret.t = "bool"
                                 /\ Lower(last.name) = Lower(name)
                              THEN IF last.ret.v THEN "new" ELSE "update"
                              ELSE "no"]

GetChatId ==
    \E name \in Names :
        /\ last' = [NoCall EXCEPT !.op = "get_chat_id", !.name = name,
                                  !.ret = get_chat_id(contacts, name)]
        /\ UNCHANGED <<contacts, file>>

GetContact ==
    \E name \in Names :
        /\ last' = [NoCall EXCEPT !.op = "get_contact", !.name = name,
                                  !.ret = get_contact(contacts, name)]
        /\ UNCHANGED <<contacts, file>>

ListAll ==
    /\ last' = [NoCall EXCEPT !.op = "list_all", !.ret = list_all(contacts)]
    /\ UNCHANGED <<contacts, file>>

Search ==
    \E query \in Queries :
        /\ last' = [NoCall EXCEPT !.op = "search", !.name = query,
                                  !.ret = search(contacts, query)]
        /\ UNCHANGED <<contacts, file>>

ImportFromChats ==
    \E chats \in Batches :
        \E r \in {import_from_chats(contacts, file, chats)} :
            /\ IsDict(r.contacts) => Len(r.contacts.items) <= MaxContacts
            /\ contacts' = r.contacts
            /\ file' = r.file
            /\ last' = [NoCall EXCEPT !.op = "import_from_chats",
                                      !.chats = chats, !.ret = r.ret]

Next ==
    \/ Construct
    \/ Add
    \/ Remove
    \/ GetChatId
    \/ GetContact
    \/ ListAll
    \/ Search
    \/ ImportFromChats

Spec == Init /\ [][Next]_vars

----------------------------------------------------------------------------
(* Properties of add, remove and the lookups *)

\* the call just made returned a value (it did not raise)
Returned(l, op) == l.op = op /\ l.ret.t # "exc"

\* the record an add call writes, from the arguments of the call
Written(l) ==
    [name |-> PyStr(l.name),
     chat_id |-> PyStr(str(l.chat_id)),
     type |-> PyStr(l.chat_type),
     title |-> l.title]

\* the call just made is an add or a remove on the key of name n
Touches(l, n) == l.op \in {"add", "remove"} /\ Lower(l.name) = Lower(n)

\* C1: after add(n1, c, ...) returns, every name n2 with lower(n2) = lower(n1)
\* looks up str(c) through get_chat_id and the record just written through
\* get_contact, and a contact that is found keeps being found with the same
\* chat id and record by every call other than an add or a remove on its key
C1_CaseInsensitiveLookup ==
    [][ /\ Returned(last', "add") =>
             \A n2 \in Names :
                 Lower(n2) = Lower(last'.name) =>
                     /\ get_chat_id(contacts', n2) = PyStr(str(last'.chat_id))
                     /\ get_contact(contacts', n2) = [t |-> "dict", v |-> Written(last')]
        /\ \A n2 \in Names :
             (/\ IsDict(contacts)
              /\ ~Touches(last', n2)
              /\ get_chat_id(contacts, n2) # None_) =>
                 /\ get_chat_id(contacts', n2) = get_chat_id(contacts, n2)
                 /\ get_contact(contacts', n2) = get_contact(contacts, n2)
      ]_vars

\* a contact added under one casing was just looked up under the other
C1_Witness ==
    /\ last.op = "get_chat_id"
    /\ last.name = <<"a">>
    /\ last.ret = PyStr(<<"-", "2">>)
    /\ IsDict(contacts)
    /\ \E i \in 1..Len(contacts.items) : contacts.items[i].val.name = PyStr(<<"A">>)

\* C2: add returns true exactly when lower(name) was not a key before the
\* call; on an existing key the entry is replaced where it stands by the
\* record of the call, the number of entries stays, and every entry under
\* another key is left as it was
C2_AddUpsert ==
    [][ Returned(last', "add") =>
          LET k == Lower(last'.name)
          IN  /\ last'.ret = PyBool(~HasKey(contacts, k))
              /\ HasKey(contacts, k) =>
                   /\ Len(contacts'.items) = Len(contacts.items)
                   /\ \A i \in 1..Len(contacts.items) :
                        contacts'.items[i] =
                            IF contacts.items[i].key = k
                            THEN [key |-> k, val |-> Written(last')]
                            ELSE contacts.items[i]
      ]_vars

\* an add has overwritten the first of two entries with a new casing
C2_Witness ==
    /\ last.op = "add"
    /\ last.ret = PyBool(FALSE)
    /\ IsDict(contacts)
    /\ Len(contacts.items) = 2
    /\ contacts.items[1].val = Written(last)
    /\ contacts.items[1].key # last.name

\* the store and the file after add(name, a...) followed by remove(name)
AddThenRemove(name, a) ==
    Only({remove(r.contacts, r.file, name) :
            r \in {add(contacts, file, name, a[1], a[2], a[3])}})

\* C3 as stated: from every reachable store S and for every name n, add(n)
\* followed by remove(n) leaves the store in memory and the store held by
\* the file equal to S
C3_Original ==
    IsDict(contacts) =>
        \A name \in Names, a \in AddArgs :
            /\ AddThenRemove(name, a).contacts = contacts
            /\ _load(AddThenRemove(name, a).file) = contacts

\* C3 amended: the round trip holds for every name whose lower-cased key is
\* not in S
C3_RoundTripNewKey ==
    IsDict(contacts) =>
        \A name \in Names, a \in AddArgs :
            ~HasKey(contacts, Lower(name)) =>
                /\ AddThenRemove(name, a).contacts = contacts
                /\ _load(AddThenRemove(name, a).file) = contacts

\* a remove has just undone the add of a new name, next to another entry
C3_Witness ==
    /\ last.op = "remove"
    /\ last.after_add = "new"
    /\ last.ret = PyBool(TRUE)
    /\ IsDict(contacts)
    /\ Len(contacts.items) = 1

\* C4: remove returns true and deletes exactly the entry at lower(name) when
\* the key is there (the file then holds the new store); when it is not,
\* remove returns false and the store and the file stay as they were
C4_Remove ==
    [][ (last'.op = "remove" /\ IsDict(contacts)) =>
          LET k == Lower(last'.name)
          IN  IF HasKey(contacts, k)
              THEN /\ last'.ret = PyBool(TRUE)
                   /\ contacts'.items =
                        SelectSeq(contacts.items, LAMBDA it : it.key # k)
                   /\ file' = dumps(contacts')
              ELSE /\ last'.ret = PyBool(FALSE)
                   /\ contacts' = contacts
                   /\ file' = file
      ]_vars

\* a remove of a name that is not in the store, before the file exists
C4_Witness ==
    /\ last.op = "remove"
    /\ last.ret = PyBool(FALSE)
    /\ IsDict(contacts)
    /\ file.kind = "absent"

\* C5: what loading the backing file yields is the in-memory store, after
\* any sequence of operations of one process
C5_FileMirrorsStore == _load(file) = contacts

\* an import has added two contacts, one of them without a title
C5_Witness ==
    /\ last.op = "import_from_chats"
    /\ last.ret = PyInt(2)
    /\ file.kind = "object"
    /\ \E i \in 1..Len(contacts.items) : contacts.items[i].val.title = None_

----------------------------------------------------------------------------
(* Properties of construction, import_from_chats and list_all *)

\* C6: a store built from a backing file that is absent or does not hold a
\* JSON object starts as the empty mapping
C6_MalformedStartsEmpty ==
    (last.op = "construct" /\ file.kind # "object") => contacts = EmptyDict

\* C7: import_from_chats leaves every entry that was there before the call
\* as it was and where it was, and returns the number of entries it added
C7_ImportKeepsExisting ==
    [][ (last'.op = "import_from_chats" /\ IsDict(contacts)) =>
          /\ last'.ret.t = "int"
          /\ Len(contacts'.items) = Len(contacts.items) + last'.ret.v
          /\ last'.ret.v >= 0
          /\ \A i \in 1..Len(contacts.items) : contacts'.items[i] = contacts.items[i]
      ]_vars

\* the lower-cased name import_from_chats derives for an element of a batch
BatchKey(ci) == Lower(import_name(ci.chat).v)

\* the chat id of an element of a batch, as stored
BatchId(ci) == PyStr(IntToStr(ci.chat.id))

\* an import of two chats with different names added one and skipped the
\* other, whose name was taken by a contact with another chat id
C7_Witness ==
    /\ last.op = "import_from_chats"
    /\ last.ret = PyInt(1)
    /\ Len(last.chats) = 2
    /\ BatchKey(last.chats[1]) # BatchKey(last.chats[2])
    /\ \E j \in 1..2 :
         /\ HasKey(contacts, BatchKey(last.chats[j]))
         /\ Lookup(contacts, BatchKey(last.chats[j])).chat_id # BatchId(last.chats[j])

\* chats i < j of the batch derive the same key with different chat ids, and
\* i is the first chat of the batch with that key
Collide(chats, i, j) ==
    /\ i < j
    /\ BatchKey(chats[i]) = BatchKey(chats[j])
    /\ chats[i].chat.id # chats[j].chat.id
    /\ \A h \in 1..(i - 1) : BatchKey(chats[h]) # BatchKey(chats[i])

\* the store holds one entry per key, and the count returned by the import
\* is the number of keys of the batch that were not in the store
NoDuplicateNoOvercount(before, after, l) ==
    /\ Cardinality(Keys(after)) = Len(after.items)
    /\ l.ret = PyInt(Cardinality({BatchKey(l.chats[h]) : h \in 1..Len(l.chats)}
                                     \ Keys(before)))

\* C8 as stated: when two chats of a batch derive the same key with
\* different chat ids, the entry at that key carries the first chat's id,
\* the second is not counted and the key is held once
C8_Original ==
    [][ (last'.op = "import_from_chats" /\ IsDict(contacts)) =>
          \A i, j \in 1..Len(last'.chats) :
              Collide(last'.chats, i, j) =>
                  /\ HasKey(contacts', BatchKey(last'.chats[i]))
                  /\ Lookup(contacts', BatchKey(last'.chats[i])).chat_id
                         = BatchId(last'.chats[i])
                  /\ NoDuplicateNoOvercount(contacts, contacts', last')
      ]_vars

\* C8 amended: the entry carries the first chat's id when the key was not in
\* the store before the call; when it was, the entry that was there is kept
C8_FirstOfCollidingWins ==
    [][ (last'.op = "import_from_chats" /\ IsDict(contacts)) =>
          \A i, j \in 1..Len(last'.chats) :
              Collide(last'.chats, i, j) =>
                  LET k == BatchKey(last'.chats[i])
                  IN  /\ HasKey(contacts', k)
                      /\ Lookup(contacts', k) =
                           IF HasKey(contacts, k)
                           THEN Lookup(contacts, k)
                           ELSE [name |-> import_name(last'.chats[i].chat),
                                 chat_id |-> BatchId(last'.chats[i]),
                                 type |-> PyStr(last'.chats[i].chat.type),
                                 title |-> import_title(last'.chats[i].chat)]
                      /\ NoDuplicateNoOvercount(contacts, contacts', last')
      ]_vars

\* an import of two colliding chats has stored the first and only the first
C8_Witness ==
    /\ last.op = "import_from_chats"
    /\ last.ret = PyInt(1)
    /\ Len(last.chats) = 2
    /\ Collide(last.chats, 1, 2)
    /\ Lookup(contacts, BatchKey(last.chats[1])).chat_id = BatchId(last.chats[1])

\* a field of a chat that is there and not null
Present(field) == field.t = "str" /\ field.v # <<>>

\* the text a field contributes to the title: nothing when it is absent
TextOf(field) == IF Present(field) THEN field.v ELSE <<>>

\* the contact C9 describes for a chat
ClaimedContact(chat) ==
    IF chat.type = private
    THEN [name |-> IF Present(chat.first_name) THEN chat.first_name
                   ELSE IF Present(chat.username) THEN chat.username
                   ELSE PyStr(User_ \o IntToStr(chat.id)),
          chat_id |-> PyStr(IntToStr(chat.id)),
          type |-> PyStr(chat.type),
          title |-> PyStr(Strip(TextOf(chat.first_name) \o <<" ">>
                                    \o TextOf(chat.last_name)))]
    ELSE [name |-> IF Present(chat.title) THEN chat.title
                   ELSE PyStr(chat.type \o <<"_">> \o IntToStr(chat.id)),
          chat_id |-> PyStr(IntToStr(chat.id)),
          type |-> PyStr(chat.type),
          title |-> IF Present(chat.title) THEN chat.title ELSE None_]

\* C9: every chat of the batch that import_from_chats stores (its name is
\* not taken in the store nor by an earlier chat of the batch) is stored as
\* the contact derived from its fields, null fields counting as absent
C9_DerivedContact ==
    [][ (last'.op = "import_from_chats" /\ IsDict(contacts)) =>
          \A i \in 1..Len(last'.chats) :
              LET want == ClaimedContact(last'.chats[i].chat)
                  k == Lower(want.name.v)
              IN  ( /\ ~HasKey(contacts, k)
                    /\ \A h \in 1..(i - 1) :
                         Lower(ClaimedContact(last'.chats[h].chat).name.v) # k )
                  => (HasKey(contacts', k) /\ Lookup(contacts', k) = want)
      ]_vars

\* C10: list_all returns the contacts of the store, each once, in the order
\* of their lower-cased names, and leaves the store and the file alone
C10_ListAllSorted ==
    [][ (last'.op = "list_all" /\ IsDict(contacts)) =>
          /\ last'.ret.t = "list"
          /\ Len(last'.ret.v) = Len(contacts.items)
          /\ \A i \in 1..Len(contacts.items) :
               Cardinality({j \in 1..Len(last'.ret.v) :
                              last'.ret.v[j] = contacts.items[i].val}) = 1
          /\ \A i, j \in 1..Len(last'.ret.v) :
               i < j => ~StrLess(Lower(last'.ret.v[j].name.v),
                                 Lower(last'.ret.v[i].name.v))
          /\ contacts' = contacts
          /\ file' = file
      ]_vars

\* list_all has returned two contacts in an order that is neither the
\* insertion order nor the order of the names as written
C10_Witness ==
    /\ last.op = "list_all"
    /\ IsDict(contacts)
    /\ Len(last.ret.v) = 2
    /\ last.ret.v # Values(contacts)
    /\ StrLess(last.ret.v[2].name.v, last.ret.v[1].name.v)

----------------------------------------------------------------------------
(* Properties of search *)

\* q occurs in s, position by position
Occurs(q, s) ==
    \E k \in 1..(Len(s) + 1) :
        /\ k + Len(q) - 1 <= Len(s)
        /\ \A m \in 1..Len(q) : s[k + m - 1] = q[m]

\* the positions of the store whose lower-cased name contains lower(q)
Matching(c, q) ==
    {i \in 1..Len(c.items) : Occurs(Lower(q), Lower(c.items[i].val.name.v))}

\* C11: search returns the contacts whose lower-cased name contains the
\* lower-cased query, each once and in the insertion order of the store (the
\* empty list when there is none), and leaves the store and the file alone
C11_SearchSubstring ==
    [][ (last'.op = "search" /\ IsDict(contacts)) =>
          /\ last'.ret.t = "list"
          /\ Len(last'.ret.v) = Cardinality(Matching(contacts, last'.name))
          /\ \A i \in Matching(contacts, last'.name) :
               last'.ret.v[Cardinality({j \in Matching(contacts, last'.name) : j <= i})]
                   = contacts.items[i].val
          /\ contacts' = contacts
          /\ file' = file
      ]_vars

\* a search in capitals has found two contacts and returned them in the
\* order they were inserted, which is not the order of their names
C11_Witness ==
    /\ last.op = "search"
    /\ last.name = <<"R">>
    /\ IsDict(contacts)
    /\ Len(last.ret.v) = 2
    /\ last.ret.v = Values(contacts)
    /\ StrLess(Lower(last.ret.v[2].name.v), Lower(last.ret.v[1].name.v))

----------------------------------------------------------------------------
(* The wrapper of the remote client (scripts/telegram_bot.py).  The         *)
(* environment of a run says whether the .env file exists and what          *)
(* os.getenv returns for the token and the default chat id; `remote` is     *)
(* what the remote service answers to a request.                            *)

\* what a wrapper method did: the requests sent to the remote service and
\* the value returned (or the exception raised)
Called(calls, ret) == [calls |-> calls, ret |-> ret]

\* one request to the remote service and its answer
Request(method, chat_id, remote) ==
    Called(<<[method |-> method, chat_id |-> chat_id]>>,
           IF remote = "ok" THEN [t |-> "dict", v |-> method]
           ELSE PyExc("TelegramError"))

\* TelegramBotWrapper.__init__ without a token argument
TelegramBotWrapper(env) ==
    IF ~env.env_file THEN PyExc("ValueError")
    ELSE IF ~Truthy(env.token) THEN PyExc("ValueError")
    ELSE [t |-> "bot", v |-> [default_chat_id |-> env.default_chat_id]]

\* send_message that sends the request whatever the target is
send_message_unchecked(bot, chat_id, remote) ==
    Request("send_message",
            IF chat_id = None_ THEN bot.v.default_chat_id ELSE chat_id, remote)

\* TelegramBotWrapper.send_message
send_message(bot, chat_id, remote) ==
    LET target == IF chat_id = None_ THEN bot.v.default_chat_id ELSE chat_id
    IN  IF target = None_
        THEN Called(<<>>, PyExc("ValueError"))
        ELSE Request("send_message", target, remote)

\* TelegramBotWrapper.send_photo; exists: the photo file can be opened
send_photo(bot, exists, chat_id, remote) ==
    LET target == IF chat_id = None_ THEN bot.v.default_chat_id ELSE chat_id
    IN  IF target = None_
        THEN Called(<<>>, PyExc("ValueError"))
        ELSE IF ~exists
        THEN Called(<<>>, PyExc("FileNotFoundError"))
        ELSE Request("send_photo", target, remote)

\* TelegramBotWrapper.send_document; exists: the file can be opened
send_document(bot, exists, chat_id, remote) ==
    LET target == IF chat_id = None_ THEN bot.v.default_chat_id ELSE chat_id
    IN  IF target = None_
        THEN Called(<<>>, PyExc("ValueError"))
        ELSE IF ~exists
        THEN Called(<<>>, PyExc("FileNotFoundError"))
        ELSE Request("send_document", target, remote)

\* TelegramBotWrapper.get_me
get_me(bot, remote) == Request("get_me", None_, remote)

\* TelegramBotWrapper.get_chat
get_chat(bot, chat_id, remote) == Request("get_chat", chat_id, remote)

\* get_updates that asks again after a failure
get_updates_retry(bot, updates, remote) ==
    IF remote = "ok"
    THEN Called(<<[method |-> "get_updates", chat_id |-> None_]>>,
                PyList([i \in 1..Len(updates) |->
                          [chat |-> get_updates_chat(updates[i])]]))
    ELSE Called(<<[method |-> "get_updates", chat_id |-> None_],
                  [method |-> "get_updates", chat_id |-> None_]>>,
                PyExc("TelegramError"))

\* TelegramBotWrapper.get_updates: the updates received, each with the chat
\* dict of its message
get_updates(bot, updates, remote) ==
    IF remote = "ok"
    THEN Called(<<[method |-> "get_updates", chat_id |-> None_]>>,
                PyList([i \in 1..Len(updates) |->
                          [chat |-> get_updates_chat(updates[i])]]))
    ELSE Called(<<[method |-> "get_updates", chat_id |-> None_]>>,
                PyExc("TelegramError"))

----------------------------------------------------------------------------
(* The command scripts: one run of a script from its arguments to its exit. *)
(* A run ends with an exit code, the kind of message it reported, the       *)
(* requests it sent, the chat id it handed to the wrapper (Absent when it   *)
(* did not get that far), whether it built a ContactManager, and the store  *)
(* and the backing file it leaves.                                          *)

Ended(exit, report, w, passed, manager, c, f) ==
    [exit |-> exit, report |-> report, calls |-> w.calls, ret |-> w.ret,
     passed |-> passed, manager |-> manager, contacts |-> c, file |-> f]

\* no wrapper method was called
NoCalls == Called(<<>>, None_)

\* no stripping of the leading '-'
LStripDash_none(s) == s

\* str.lstrip('-')
LStripDash(s) ==
    IF s # <<>> /\ Head(s) = "-"
    THEN SubSeq(s, 1 + (CHOOSE n \in 1..Len(s) :
                          /\ \A i \in 1..n : s[i] = "-"
                          /\ (n < Len(s) => s[n + 1] # "-")), Len(s))
    ELSE s

\* str.isdigit()
isdigit(s) ==
    /\ s # <<>>
    /\ \A i \in 1..Len(s) : \E d \in 1..Len(DigitChars) : DigitChars[d] = s[i]

\* bot = TelegramBotWrapper() followed by one method of the wrapper
\* (w); a constructor that raises leaves the try block before the method
WithBot(bot, w) == IF bot.t = "exc" THEN Called(<<>>, bot) ELSE w

\* the handlers of the scripts: except ValueError, then except Exception
Handled(w, passed, manager, c, f) ==
    IF w.ret.t = "exc"
    THEN IF w.ret.v = "ValueError"
         THEN Ended(1, "Configuration Error", w, passed, manager, c, f)
         ELSE Ended(1, "Failed", w, passed, manager, c, f)
    ELSE Ended(0, "ok", w, passed, manager, c, f)

\* an exception no handler catches ends the run with a traceback
Uncaught(e, manager, c, f) ==
    Ended(1, "Traceback", Called(<<>>, e), Absent, manager, c, f)

\* send_message.py, from the resolved chat id on
send_message_send(args, chat_id, manager, env, remote, c, f) ==
    IF ~args.use_default /\ ~Truthy(chat_id)
    THEN Ended(1, "Please specify", NoCalls, Absent, manager, c, f)
    ELSE Handled(WithBot(TelegramBotWrapper(env),
                         send_message(TelegramBotWrapper(env), chat_id, remote)),
                 chat_id, manager, c, f)

\* send_message.py: main
send_message_main(args, env, remote, c, f) ==
    IF args.use_default
    THEN send_message_send(args, None_, FALSE, env, remote, c, f)
    ELSE IF Truthy(args.to)
    THEN IF isdigit(LStripDash(args.to.v))
         THEN send_message_send(args, args.to, FALSE, env, remote, c, f)
         ELSE Only({ IF found.t = "exc"
                     THEN Uncaught(found, TRUE, manager, f)
                     ELSE IF found = None_
                     THEN IF list_all(manager).t = "exc"
                          THEN Uncaught(list_all(manager), TRUE, manager, f)
                          ELSE Ended(1, "Contact not found", NoCalls, Absent,
                                     TRUE, manager, f)
                     ELSE send_message_send(args, found, TRUE, env, remote,
                                            manager, f) :
                       found \in {get_chat_id(_load(f), args.to.v)},
                       manager \in {_load(f)} })
    ELSE IF Truthy(args.chat_id)
    THEN send_message_send(args, args.chat_id, FALSE, env, remote, c, f)
    ELSE send_message_send(args, None_, FALSE, env, remote, c, f)

\* send_photo.py with the wrapper built before the photo is looked for
send_photo_main_late(args, exists, env, remote, c, f) ==
    LET chat_id == IF args.use_default THEN None_
                   ELSE IF Truthy(args.chat_id) THEN args.chat_id
                   ELSE None_
    IN  IF ~args.use_default /\ ~Truthy(chat_id)
        THEN Ended(1, "Please specify", NoCalls, Absent, FALSE, c, f)
        ELSE IF TelegramBotWrapper(env).t = "exc"
        THEN Handled(Called(<<>>, TelegramBotWrapper(env)), chat_id, FALSE, c, f)
        ELSE IF ~exists
        THEN Ended(1, "not found", NoCalls, Absent, FALSE, c, f)
        ELSE Handled(send_photo(TelegramBotWrapper(env), exists, chat_id, remote),
                     chat_id, FALSE, c, f)

\* send_photo.py: main; exists: the photo is there
send_photo_main(args, exists, env, remote, c, f) ==
    LET chat_id == IF args.use_default THEN None_
                   ELSE IF Truthy(args.chat_id) THEN args.chat_id
                   ELSE None_
    IN  IF ~args.use_default /\ ~Truthy(chat_id)
        THEN Ended(1, "Please specify", NoCalls, Absent, FALSE, c, f)
        ELSE IF ~exists
        THEN Ended(1, "not found", NoCalls, Absent, FALSE, c, f)
        ELSE Handled(WithBot(TelegramBotWrapper(env),
                             send_photo(TelegramBotWrapper(env), exists, chat_id,
                                        remote)),
                     chat_id, FALSE, c, f)

\* send_file.py: main; exists: the file is there
send_file_main(args, exists, env, remote, c, f) ==
    LET chat_id == IF args.use_default THEN None_
                   ELSE IF Truthy(args.chat_id) THEN args.chat_id
                   ELSE None_
    IN  IF ~args.use_default /\ ~Truthy(chat_id)
        THEN Ended(1, "Please specify", NoCalls, Absent, FALSE, c, f)
        ELSE IF ~exists
        THEN Ended(1, "not found", NoCalls, Absent, FALSE, c, f)
        ELSE Handled(WithBot(TelegramBotWrapper(env),
                             send_document(TelegramBotWrapper(env), exists,
                                           chat_id, remote)),
                     chat_id, FALSE, c, f)

\* send_with_buttons.py: main
send_with_buttons_main(args, env, remote, c, f) ==
    LET chat_id == IF args.use_default THEN None_
                   ELSE IF Truthy(args.chat_id) THEN args.chat_id
                   ELSE None_
    IN  IF ~args.use_default /\ ~Truthy(chat_id)
        THEN Ended(1, "Please specify", NoCalls, Absent, FALSE, c, f)
        ELSE Handled(WithBot(TelegramBotWrapper(env),
                             send_message(TelegramBotWrapper(env), chat_id,
                                          remote)),
                     chat_id, FALSE, c, f)

\* list_chats.py: main
list_chats_main(updates, env, remote, c, f) ==
    Handled(WithBot(TelegramBotWrapper(env),
                    get_updates(TelegramBotWrapper(env), updates, remote)),
            Absent, FALSE, c, f)

\* get_chat_info.py: main
get_chat_info_main(chat_id, env, remote, c, f) ==
    Handled(WithBot(TelegramBotWrapper(env),
                    get_chat(TelegramBotWrapper(env), chat_id, remote)),
            Absent, FALSE, c, f)

\* bot_info.py and test_connection.py: main
bot_info_main(env, remote, c, f) ==
    Handled(WithBot(TelegramBotWrapper(env),
                    get_me(TelegramBotWrapper(env), remote)),
            Absent, FALSE, c, f)

test_connection_main(env, remote, c, f) ==
    Handled(WithBot(TelegramBotWrapper(env),
                    get_me(TelegramBotWrapper(env), remote)),
            Absent, FALSE, c, f)

\* contacts.py import: the chats of the updates, the first entry of each
\* chat id
chat_list(updates) ==
    SelectSeq([i \in 1..Len(updates) |->
                 IF \A j \in 1..(i - 1) : updates[j].chat.id # updates[i].chat.id
                 THEN updates[i] ELSE None_],
              LAMBDA x : x # None_)

\* contacts.py import, after the updates were fetched
contacts_import(w, manager, f) ==
    Only({IF r.ret.t = "exc"
          THEN Ended(1, "Failed to import", Called(w.calls, r.ret), Absent,
                     TRUE, r.contacts, r.file)
          ELSE Ended(0, "Imported", Called(w.calls, r.ret), Absent,
                     TRUE, r.contacts, r.file) :
            r \in {import_from_chats(manager, f, chat_list(w.ret.v))}})

\* contacts.py: main
contacts_main(args, updates, env, remote, c, f) ==
    IF args.command = "none"
    THEN Ended(1, "help", NoCalls, Absent, FALSE, c, f)
    ELSE Only({
      CASE args.command = "add" ->
             Only({IF r.ret.t = "exc" THEN Uncaught(r.ret, TRUE, manager, f)
                   ELSE Ended(0, IF r.ret.v THEN "Added" ELSE "Updated",
                              NoCalls, Absent, TRUE, r.contacts, r.file) :
                     r \in {add(manager, f, args.name, PyStr(args.chat_id),
                                private, None_)}})
        [] args.command = "remove" ->
             Only({IF r.ret.t = "exc" THEN Uncaught(r.ret, TRUE, manager, f)
                   ELSE Ended(0, IF r.ret.v THEN "Removed" ELSE "Contact not found",
                              NoCalls, Absent, TRUE, r.contacts, r.file) :
                     r \in {remove(manager, f, args.name)}})
        [] args.command = "list" ->
             IF list_all(manager).t = "exc"
             THEN Uncaught(list_all(manager), TRUE, manager, f)
             ELSE Ended(0, "ok", NoCalls, Absent, TRUE, manager, f)
        [] args.command = "search" ->
             Only({IF r.t = "exc" THEN Uncaught(r, TRUE, manager, f)
                   ELSE Ended(0, IF r.v = <<>> THEN "No contacts found" ELSE "ok",
                              NoCalls, Absent, TRUE, manager, f) :
                     r \in {search(manager, args.name)}})
        [] args.command = "get" ->
             Only({IF chat_id.t = "exc" THEN Uncaught(chat_id, TRUE, manager, f)
                   ELSE IF Truthy(chat_id)
                   THEN Ended(0, "ok", NoCalls, Absent, TRUE, manager, f)
                   ELSE Ended(1, "Contact not found", NoCalls, Absent, TRUE,
                              manager, f) :
                     chat_id \in {get_chat_id(manager, args.name)}})
        [] args.command = "import" ->
             Only({IF w.ret.t = "exc"
                   THEN Ended(1, "Failed to import", w, Absent, TRUE, manager, f)
                   ELSE contacts_import(w, manager, f) :
                     w \in {WithBot(TelegramBotWrapper(env),
                                    get_updates(TelegramBotWrapper(env),
                                                updates, remote))}}) :
      manager \in {_load(f)} })

----------------------------------------------------------------------------
(* Runs of the command scripts, one after the other, on one backing file *)

\* the .env file, the token and the default chat id a run finds
Env(env_file, token, default_chat_id) ==
    [env_file |-> env_file, token |-> token, default_chat_id |-> default_chat_id]

\* what a run finds around it: its environment and the answer of the remote
\* service
Worlds ==
    { [env |-> Env(FALSE, None_, None_), remote |-> "ok"],
      [env |-> Env(TRUE, None_, PyStr(<<"7">>)), remote |-> "ok"],
      [env |-> Env(TRUE, PyStr(<<"t">>), None_), remote |-> "ok"],
      [env |-> Env(TRUE, PyStr(<<"t">>), PyStr(<<"7">>)), remote |-> "ok"],
      [env |-> Env(TRUE, PyStr(<<"t">>), PyStr(<<"7">>)), remote |-> "TelegramError"] }

\* --to of send_message.py
ToArgs == {None_, PyStr(<<>>), PyStr(<<"a">>), PyStr(<<"-", "1">>), PyStr(<<"-">>)}

\* --chat-id of the send scripts
ChatIdArgs == {None_, PyStr(<<"9">>)}

SendArgs ==
    [use_default : BOOLEAN, to : ToArgs, chat_id : ChatIdArgs]

\* the arguments of contacts.py
ContactsArgs ==
    {[command |-> "none", name |-> <<>>, chat_id |-> <<>>]}
      \cup {[command |-> "add", name |-> a[1], chat_id |-> a[2]] :
              a \in {<<<<"a">>, <<"5">>>>, <<<<"-", "1">>, <<"6">>>>, <<<<"A">>, <<>>>>}}
      \cup {[command |-> cmd, name |-> n, chat_id |-> <<>>] :
              cmd \in {"remove", "get", "search"}, n \in {<<"a">>, <<"-", "1">>}}
      \cup {[command |-> cmd, name |-> <<>>, chat_id |-> <<>>] :
              cmd \in {"list", "import"}}

\* the updates the remote service holds for the bot
UpdateLists ==
    { <<>>,
      <<TgChat(1, private, None_, None_, PyStr(<<"A">>), None_)>>,
      <<TgChat(1, private, None_, None_, PyStr(<<"A">>), None_),
        TgChat(1, private, None_, None_, None_, None_)>> }

\* the run just made: the script, what it was given and how it ended
Ran(script, args, exists, updates, w, r) ==
    [script |-> script, args |-> args, exists |-> exists, updates |-> updates,
     env |-> w.env, remote |-> w.remote,
     exit |-> r.exit, report |-> r.report, calls |-> r.calls, ret |-> r.ret,
     passed |-> r.passed, manager |-> r.manager]

NoArgs == [use_default |-> FALSE, to |-> None_, chat_id |-> None_]

InitCli ==
    /\ file \in InitFiles
    /\ contacts = _load(file)
    /\ last = [script |-> "none"]

RunSendMessage ==
    \E args \in SendArgs, w \in Worlds :
        \E r \in {send_message_main(args, w.env, w.remote, contacts, file)} :
            /\ contacts' = r.contacts
            /\ file' = r.file
            /\ last' = Ran("send_message", args, TRUE, <<>>, w, r)

RunSendPhoto ==
    \E args \in {a \in SendArgs : a.to = None_}, exists \in BOOLEAN, w \in Worlds :
        \E r \in {send_photo_main(args, exists, w.env, w.remote, contacts, file)} :
            /\ contacts' = r.contacts
            /\ file' = r.file
            /\ last' = Ran("send_photo", args, exists, <<>>, w, r)

RunSendFile ==
    \E args \in {a \in SendArgs : a.to = None_}, exists \in BOOLEAN, w \in Worlds :
        \E r \in {send_file_main(args, exists, w.env, w.remote, contacts, file)} :
            /\ contacts' = r.contacts
            /\ file' = r.file
            /\ last' = Ran("send_file", args, exists, <<>>, w, r)

RunSendWithButtons ==
    \E args \in {a \in SendArgs : a.to = None_}, w \in Worlds :
        \E r \in {send_with_buttons_main(args, w.env, w.remote, contacts, file)} :
            /\ contacts' = r.contacts
            /\ file' = r.file
            /\ last' = Ran("send_with_buttons", args, TRUE, <<>>, w, r)

RunListChats ==
    \E updates \in UpdateLists, w \in Worlds :
        \E r \in {list_chats_main(updates, w.env, w.remote, contacts, file)} :
            /\ contacts' = r.contacts
            /\ file' = r.file
            /\ last' = Ran("list_chats", NoArgs, TRUE, updates, w, r)

RunGetChatInfo ==
    \E chat_id \in ChatIdArgs \ {None_}, w \in Worlds :
        \E r \in {get_chat_info_main(chat_id, w.env, w.remote, contacts, file)} :
            /\ contacts' = r.contacts
            /\ file' = r.file
            /\ last' = Ran("get_chat_info", [NoArgs EXCEPT !.chat_id = chat_id],
                           TRUE, <<>>, w, r)

RunBotInfo ==
    \E w \in Worlds :
        \E r \in {bot_info_main(w.env, w.remote, contacts, file)} :
            /\ contacts' = r.contacts
            /\ file' = r.file
            /\ last' = Ran("bot_info", NoArgs, TRUE, <<>>, w, r)

RunTestConnection ==
    \E w \in Worlds :
        \E r \in {test_connection_main(w.env, w.remote, contacts, file)} :
            /\ contacts' = r.contacts
            /\ file' = r.file
            /\ last' = Ran("test_connection", NoArgs, TRUE, <<>>, w, r)

RunContacts ==
    \E args \in ContactsArgs, updates \in UpdateLists, w \in Worlds :
        /\ args.command # "import" =>
               (updates = <<>> /\ w.env = Env(FALSE, None_, None_))
        /\ \E r \in {contacts_main(args, updates, w.env, w.remote, contacts, file)} :
            /\ contacts' = r.contacts
            /\ file' = r.file
            /\ last' = Ran("contacts", args, TRUE, updates, w, r)

NextCli ==
    \/ RunSendMessage
    \/ RunSendPhoto
    \/ RunSendFile
    \/ RunSendWithButtons
    \/ RunListChats
    \/ RunGetChatInfo
    \/ RunBotInfo
    \/ RunTestConnection
    \/ RunContacts

SpecCli == InitCli /\ [][NextCli]_vars

----------------------------------------------------------------------------
(* Properties of the wrapper and of the command scripts *)

\* the scripts that send something
SendScripts == {"send_message", "send_photo", "send_file", "send_with_buttons"}

\* the run built the wrapper and called its method
CalledWrapper(l) ==
    /\ l.passed # Absent
    /\ TelegramBotWrapper(l.env).t = "bot"

\* C12: a send method of the wrapper called without a chat id sends its
\* request to the configured default chat id; without a default it raises
\* ValueError and no request is sent
C12_DefaultChatId ==
    [][ (/\ last'.script \in SendScripts
         /\ CalledWrapper(last')
         /\ last'.passed = None_) =>
            IF last'.env.default_chat_id = None_
            THEN /\ last'.ret = PyExc("ValueError")
                 /\ last'.calls = <<>>
            ELSE /\ Len(last'.calls) = 1
                 /\ last'.calls[1].chat_id = last'.env.default_chat_id
      ]_vars

\* send_photo of a wrapper without a default chat id was called without a
\* chat id
C12_Witness ==
    /\ last.script = "send_photo"
    /\ CalledWrapper(last)
    /\ last.passed = None_
    /\ last.env.default_chat_id = None_
    /\ last.ret = PyExc("ValueError")

\* the run was given, as a contact name, a name the store does not hold
GivenMissingName(l, f) ==
    /\ IsDict(_load(f))
    /\ \/ /\ l.script = "send_message"
          /\ ~l.args.use_default
          /\ Truthy(l.args.to)
          /\ ~isdigit(LStripDash(l.args.to.v))
          /\ ~HasKey(_load(f), Lower(l.args.to.v))
       \/ /\ l.script = "contacts"
          /\ l.args.command \in {"get", "remove"}
          /\ ~HasKey(_load(f), Lower(l.args.name))

\* C13: a command given a contact name that is not in the store exits with
\* code 1, sends no request and leaves the store as it was
C13_MissingNameExits1 ==
    [][ GivenMissingName(last', file) =>
            /\ last'.exit = 1
            /\ last'.calls = <<>>
            /\ file' = file
      ]_vars

\* C13 without the exit code: such a run sends no request and leaves the
\* store as it was
C13_MissingNameNoEffect ==
    [][ GivenMissingName(last', file) =>
            /\ last'.calls = <<>>
            /\ file' = file
      ]_vars

\* C14: a run sends at most one request to the remote service; when the
\* request fails the run exits with code 1 and the backing file is as it was
C14_OneRemoteCall ==
    [][ last'.script # "none" =>
            /\ Len(last'.calls) <= 1
            /\ (Len(last'.calls) = 1 /\ last'.ret = PyExc("TelegramError")) =>
                   /\ last'.exit = 1
                   /\ file' = file
                   /\ last'.manager => contacts' = _load(file)
      ]_vars

\* an import whose request for the updates failed, with updates that would
\* have added a contact
C14_Witness ==
    /\ last.script = "contacts"
    /\ last.args.command = "import"
    /\ last.updates # <<>>
    /\ Len(last.calls) = 1
    /\ last.ret = PyExc("TelegramError")
    /\ last.exit = 1
    /\ contacts = EmptyDict

\* the run got as far as building the wrapper
BuiltWrapper(l) ==
    \/ l.script \in {"list_chats", "get_chat_info", "bot_info", "test_connection"}
    \/ l.script \in SendScripts /\ l.passed # Absent
    \/ l.script = "contacts" /\ l.args.command = "import"

\* the run built the wrapper, which found no .env file or no token in it
MissingCredentials(l) ==
    l.script # "none" /\ BuiltWrapper(l) /\ TelegramBotWrapper(l.env).t = "exc"

\* C17: a script that builds the wrapper without a .env file or without a
\* token exits with code 1, sends no request and reports a configuration
\* error, which a failed request is never reported as
C17_ConfigurationError ==
    [][ /\ MissingCredentials(last') =>
            /\ last'.exit = 1
            /\ last'.calls = <<>>
            /\ last'.report = "Configuration Error"
        /\ (last'.script # "none" /\ last'.ret = PyExc("TelegramError")) =>
            last'.report # "Configuration Error"
      ]_vars

\* C17 without the kind of the report: such a run exits with code 1 and
\* sends no request
C17_MissingCredentialsExit1 ==
    [][ MissingCredentials(last') =>
            /\ last'.exit = 1
            /\ last'.calls = <<>>
            /\ file' = file
      ]_vars

\* s is digits, after any number of leading '-'
IsChatId(s) ==
    \E k \in 0..Len(s) :
        /\ k < Len(s)
        /\ \A i \in 1..k : s[i] = "-"
        /\ \A i \in (k + 1)..Len(s) : s[i] \in {DigitChars[d] : d \in 1..10}

\* C18: send_message.py takes its target from --use-default, else from --to,
\* else from --chat-id.  With --use-default the store is not read and the
\* wrapper is called without a chat id; a --to of digits is the chat id as
\* it stands, without a lookup; any other --to is looked up in the store and
\* nowhere else; without a non-empty target the run exits with code 1 and
\* sends nothing
C18_TargetPrecedence ==
    [][ last'.script = "send_message" =>
          LET a == last'.args
              store == _load(file)
          IN  IF a.use_default
              THEN /\ ~last'.manager
                   /\ last'.passed = None_
                   /\ \A i \in 1..Len(last'.calls) :
                        last'.calls[i].chat_id = last'.env.default_chat_id
              ELSE IF Truthy(a.to) /\ IsChatId(a.to.v)
              THEN /\ ~last'.manager
                   /\ last'.passed = a.to
              ELSE IF Truthy(a.to)
              THEN /\ last'.manager
                   /\ IsDict(store) =>
                        IF /\ HasKey(store, Lower(a.to.v))
                           /\ Truthy(Lookup(store, Lower(a.to.v)).chat_id)
                        THEN last'.passed = Lookup(store, Lower(a.to.v)).chat_id
                        ELSE last'.exit = 1 /\ last'.calls = <<>>
              ELSE IF Truthy(a.chat_id)
              THEN /\ ~last'.manager
                   /\ last'.passed = a.chat_id
              ELSE /\ last'.exit = 1
                   /\ last'.calls = <<>>
                   /\ last'.passed = Absent
      ]_vars

\* a message was sent to the chat id given as --to although the store holds
\* a contact of that name with another chat id
C18_Witness ==
    /\ last.script = "send_message"
    /\ ~last.args.use_default
    /\ last.args.to = PyStr(<<"-", "1">>)
    /\ IsDict(contacts)
    /\ HasKey(_load(file), <<"-", "1">>)
    /\ Lookup(_load(file), <<"-", "1">>).chat_id # last.args.to
    /\ Len(last.calls) = 1
    /\ last.calls[1].chat_id = last.args.to
    /\ last.exit = 0

\* C19: send_photo.py and send_file.py check the target, then the
\* attachment, then the credentials: a run with neither --chat-id nor
\* --use-default exits with code 1 whatever else is wrong; otherwise a run
\* whose attachment is not there exits with code 1 without a request and
\* without a report about the credentials, which it never read
C19_TargetAttachmentCredentials ==
    [][ last'.script \in {"send_photo", "send_file"} =>
          IF ~last'.args.use_default /\ ~Truthy(last'.args.chat_id)
          THEN /\ last'.exit = 1
               /\ last'.calls = <<>>
               /\ last'.report = "Please specify"
          ELSE ~last'.exists =>
                 /\ last'.exit = 1
                 /\ last'.calls = <<>>
                 /\ last'.passed = Absent
                 /\ last'.report = "not found"
      ]_vars

\* send_photo.py was given a target and a photo that is not there, with no
\* .env file: it ended on the photo
C19_Witness ==
    /\ last.script = "send_photo"
    /\ last.args.use_default
    /\ ~last.exists
    /\ ~last.env.env_file
    /\ last.exit = 1
    /\ last.report = "not found"

-----------------------------------------------------------------------------
(* The shape of the store *)

\* C20: in every store reached from an empty, absent or malformed backing
\* file by add, remove and import_from_chats, the key of each entry is the
\* lower-cased name of the entry, the chat_id of each entry is a string, and
\* no two entries have names that are equal when case is ignored
C20_KeyIsLowerName ==
    IsDict(contacts) =>
        \A i \in 1..Len(contacts.items) :
            LET x == contacts.items[i]
            IN  /\ x.val.name.t = "str"
                /\ x.key = Lower(x.val.name.v)
                /\ x.val.chat_id.t = "str"
                /\ \A j \in 1..Len(contacts.items) :
                     i # j => Lower(contacts.items[j].val.name.v) # Lower(x.val.name.v)

\* a store of two contacts, one of them with a name in upper case and a chat
\* id that was given as an integer
C20_Witness ==
    /\ IsDict(contacts)
    /\ Len(contacts.items) = 2
    /\ \E i \in 1..2 :
         /\ contacts.items[i].val.name.v # contacts.items[i].key
         /\ contacts.items[i].val.chat_id = PyStr(<<"-", "2">>)
    /\ last.op \in {"add", "import_from_chats"}

-----------------------------------------------------------------------------
(* Two runs of contacts.py at the same time on one backing file.  Each run  *)
(* builds its ContactManager, which reads the file, and then carries out    *)
(* its command on the store it holds; every add and every remove that       *)
(* changes the store rewrites the whole file, and import_from_chats does so *)
(* once for each chat it adds.  Nothing is locked.  Here contacts holds the *)
(* store of each run and last the run that wrote the file last.             *)

Procs == {1, 2}

RaceCommand(command, name, chat_id, chats) ==
    [command |-> command, name |-> name, chat_id |-> chat_id, chats |-> chats]

\* the chat_list of an import: a private chat and a group
RaceChats ==
    << [chat |-> get_updates_chat(
                   TgChat(1, private, None_, None_, PyStr(<<"A">>), None_))],
       [chat |-> get_updates_chat(
                   TgChat(-2, group, PyStr(<<"B">>), None_, None_, None_))] >>

\* contacts.py add, remove and import
RaceCommands ==
    { RaceCommand("add", <<"a">>, <<"5">>, <<>>),
      RaceCommand("add", <<"B">>, <<"6">>, <<>>),
      RaceCommand("remove", <<"a">>, <<>>, <<>>),
      RaceCommand("import", <<>>, <<>>, RaceChats),
      RaceCommand("import", <<>>, <<>>, Tail(RaceChats)) }

\* a run: where it is, its command, the store its ContactManager loaded, the
\* store it holds now, the chats its import has not handled yet, and whether
\* it was interrupted
Run(pc, cmd, loaded, store, todo, interrupted) ==
    [pc |-> pc, cmd |-> cmd, loaded |-> loaded, store |-> store, todo |-> todo,
     interrupted |-> interrupted]

NotStarted ==
    Run("start", RaceCommand("none", <<>>, <<>>, <<>>), EmptyDict, EmptyDict,
        <<>>, FALSE)

\* the files a run can find
RaceFiles ==
    InitFiles \cup {_save(add(EmptyDict, NoFile, <<"a">>, PyStr(<<"1">>),
                              private, None_).contacts)}

\* self.contacts re-read from the file before each operation
self_contacts_reread(run, f) == _load(f)

\* self.contacts of the ContactManager of a run: what it loaded and changed
\* itself, whatever the file holds now
self_contacts(run, f) == run.store

\* the file was written by run p
WrittenBy(p) == [writer |-> p, writes |-> last.writes + 1]

InitRace ==
    /\ file \in RaceFiles
    /\ contacts = [p \in Procs |-> NotStarted]
    /\ last = [writer |-> 0, writes |-> 0]

\* main: manager = ContactManager()
RaceLoad ==
    \E p \in Procs, cmd \in RaceCommands :
        /\ contacts[p].pc = "start"
        /\ contacts' = [contacts EXCEPT ![p] =
                          Run("run", cmd, _load(file), _load(file), cmd.chats, FALSE)]
        /\ UNCHANGED <<file, last>>

\* main: manager.add(args.name, args.chat_id, args.type)
RaceAdd ==
    \E p \in Procs :
        /\ contacts[p].pc = "run"
        /\ contacts[p].cmd.command = "add"
        /\ \E r \in {add(self_contacts(contacts[p], file), file,
                         contacts[p].cmd.name, PyStr(contacts[p].cmd.chat_id),
                         private, None_)} :
             /\ contacts' = [contacts EXCEPT ![p].pc = "done",
                                             ![p].store = r.contacts]
             /\ file' = r.file
             /\ last' = IF r.ret.t = "exc" THEN last ELSE WrittenBy(p)

\* main: manager.remove(args.name)
RaceRemove ==
    \E p \in Procs :
        /\ contacts[p].pc = "run"
        /\ contacts[p].cmd.command = "remove"
        /\ \E r \in {remove(self_contacts(contacts[p], file), file,
                            contacts[p].cmd.name)} :
             /\ contacts' = [contacts EXCEPT ![p].pc = "done",
                                             ![p].store = r.contacts]
             /\ file' = r.file
             /\ last' = IF r.ret = PyBool(TRUE) THEN WrittenBy(p) ELSE last

\* import_from_chats: one turn of the loop
RaceImport ==
    \E p \in Procs :
        /\ contacts[p].pc = "run"
        /\ contacts[p].cmd.command = "import"
        /\ \E r \in {import_chat(self_contacts(contacts[p], file), file,
                                 Head(contacts[p].todo).chat)} :
             /\ contacts' = [contacts EXCEPT
                               ![p].pc = IF r.ret.t = "exc" \/ Len(contacts[p].todo) = 1
                                         THEN "done" ELSE "run",
                               ![p].todo = Tail(@),
                               ![p].store = r.contacts]
             /\ file' = r.file
             /\ last' = IF r.ret = PyInt(1) THEN WrittenBy(p) ELSE last

\* KeyboardInterrupt: the run ends where it is
RaceInterrupt ==
    \E p \in Procs :
        /\ contacts[p].pc = "run"
        /\ contacts' = [contacts EXCEPT ![p].pc = "done", ![p].interrupted = TRUE]
        /\ UNCHANGED <<file, last>>

NextRace ==
    \/ RaceLoad
    \/ RaceAdd
    \/ RaceRemove
    \/ RaceImport
    \/ RaceInterrupt

SpecRace == InitRace /\ [][NextRace]_vars

-----------------------------------------------------------------------------
(* Properties of concurrent runs *)

\* the whole command of a run, carried out on the store the run loaded
Whole(run) ==
    CASE run.cmd.command = "add" ->
           add(run.loaded, NoFile, run.cmd.name, PyStr(run.cmd.chat_id),
               private, None_).contacts
      [] run.cmd.command = "remove" ->
           remove(run.loaded, NoFile, run.cmd.name).contacts
      [] run.cmd.command = "import" ->
           import_from_chats(run.loaded, NoFile, run.cmd.chats).contacts
      [] OTHER -> run.loaded

\* C15: with two runs on one file and no locking, the file holds the whole
\* store of the run that wrote it last: what that run loaded, changed by its
\* own command and by nothing else, so that what the other run wrote after
\* that load is gone
C15_LastWriterWins ==
    last.writer \in Procs =>
        LET w == contacts[last.writer]
        IN  /\ file = _save(w.store)
            /\ (w.pc = "done" /\ ~w.interrupted) => file = _save(Whole(w))

\* both runs are over and both wrote; run 2 added a contact after run 1 had
\* loaded the store, run 1 wrote last, and the file does not hold the contact
C15_Witness ==
    /\ \A p \in Procs : contacts[p].pc = "done" /\ ~contacts[p].interrupted
    /\ last.writer = 1
    /\ last.writes = 2
    /\ contacts[1].cmd.command \in {"add", "import"}
    /\ contacts[2].cmd.command = "add"
    /\ ~HasKey(contacts[1].loaded, Lower(contacts[2].cmd.name))
    /\ HasKey(contacts[2].store, Lower(contacts[2].cmd.name))
    /\ ~HasKey(_load(file), Lower(contacts[2].cmd.name))

\* C16: each operation of the store, import_from_chats over several chats
\* included, takes the file from the store before the operation to the store
\* after it in one step: whenever a run writes the file, the file holds the
\* outcome of the whole operation
C16_AtomicOperations ==
    [][ \A p \in Procs :
          (last'.writer = p /\ last'.writes # last.writes) =>
              file' = _save(Whole(contacts[p]))
      ]_vars

\* add and remove write the file once, with the outcome of the operation
C16_AddRemoveOneWrite ==
    [][ \A p \in Procs :
          ( /\ last'.writer = p
            /\ last'.writes # last.writes
            /\ contacts[p].cmd.command \in {"add", "remove"} ) =>
              file' = _save(Whole(contacts[p]))
      ]_vars

====
